---- MODULE Spec2Model ----
(***************************************************************************)
(* Batch criteria of TITERRA: block motion dynamics, oracle, task          *)
(* allocation policy set and the dynamic cache variable.                   *)
(*                                                                         *)
(* Python strings are sequences of one-character strings.  Python floats   *)
(* are integers counting units of 10^-4 (FScale units make 1.0); every     *)
(* input of the model lies on a grid on which the arithmetic of the code   *)
(* is exact at that resolution.                                            *)
(***************************************************************************)
EXTENDS Integers, Sequences, FiniteSets, TLC

VARIABLES
    criteria,      \* which criteria class the command line selected
    attr,          \* what the factory closure / constructor was given
    constructed,   \* TRUE once __init__ of the class has run
    dynamics,      \* BlockMotionDynamics.dynamics
    tuples,        \* Oracle.tuples
    policies,      \* TAPolicySet.policies
    population,    \* Oracle.population, TAPolicySet.population
    extents,       \* DynamicCache.extents
    attr_changes,  \* self.attr_changes of Oracle, TAPolicySet, DynamicCache
    ncalls,        \* completed sequential calls of gen_attr_changelist()
    ret,           \* what the last gen_attr_changelist() returned
    first,         \* what the first gen_attr_changelist() returned
    dirnames,      \* what the last gen_exp_dirnames() returned
    raised,        \* exception raised by the last call, <<>> if none
    pc,            \* per concurrent caller: position in gen_attr_changelist()
    local,         \* per concurrent caller: its local variables
    tret,          \* per concurrent caller: the value its call returned
    cli_arg,       \* the criteria string of the command line
    parsed,        \* what the Parser returned for cli_arg, or how it failed
    pickled,       \* per experiment directory: the persisted change set
    xticks,        \* what the last graph_xticks() returned, and for which dirs
    xticklabels    \* what the last graph_xticklabels() returned, and for which dirs

vars == <<criteria, attr, constructed, dynamics, tuples, policies, population,
          extents, attr_changes, ncalls, ret, first, dirnames, raised,
          pc, local, tret, cli_arg, parsed, pickled, xticks, xticklabels>>

----------------------------------------------------------------------------
(* Bounds of the model.                                                    *)

MaxDyn == 2        \* tracked (attribute, base magnitude) pairs
MaxBase == 2       \* base magnitudes 0.0 .. MaxBase/10
MaxFactor == 5     \* growth factors 0.0 .. MaxFactor/10
MaxCard == 6       \* cardinalities 1 .. MaxCard
MaxPop == 2        \* population overrides 0 .. MaxPop
MaxExtent == 7     \* extent coordinates 0 .. MaxExtent
MaxCalls == 3      \* sequential calls of gen_attr_changelist() per object
MaxPlotCard == 3   \* cardinalities 1 .. MaxPlotCard of a plotted batch
MaxNum == 11       \* numbers 0 .. MaxNum written in criteria strings

----------------------------------------------------------------------------
(* Python values.                                                          *)

\* one unit of a float is 10^-4
FScale == 10 ^ 4

\* None and a list, told apart by a tag (DynamicCache starts with None,
\* Oracle and TAPolicySet start with []).
PyNone == [tag |-> "None", items |-> <<>>]

PyList(s) == [tag |-> "list", items |-> s]

\* population is None or an int
NoPopulation == -1

Digits == <<"0", "1", "2", "3", "4", "5", "6", "7", "8", "9">>

RECURSIVE str(_)
\* str(n) of a non-negative int
str(n) == IF n < 10 THEN <<Digits[n + 1]>>
          ELSE str(n \div 10) \o <<Digits[(n % 10) + 1]>>

RECURSIVE ZeroPad(_, _)
\* the decimal digits of n, left-padded with zeros to width w
ZeroPad(n, w) == IF w = 0 THEN <<>>
                 ELSE ZeroPad(n \div 10, w - 1) \o <<Digits[(n % 10) + 1]>>

Abs(q) == IF q < 0 THEN -q ELSE q

Sign(q) == IF q < 0 THEN <<"-">> ELSE <<>>

\* "%3.9f" % q and "{0:.9f}".format(q): sign, integer part, a point and
\* exactly nine decimals (a float counts 10^-4, so the last five are zero)
Fmt9(q) == Sign(q) \o str(Abs(q) \div FScale) \o <<".">>
           \o ZeroPad(Abs(q) % FScale, 4) \o <<"0", "0", "0", "0", "0">>

RECURSIVE StripZeros(_)
StripZeros(s) == IF Len(s) > 1 /\ s[Len(s)] = "0"
                 THEN StripZeros(SubSeq(s, 1, Len(s) - 1))
                 ELSE s

\* "{0}".format(q) of a float: the shortest decimal that reads back as q,
\* with at least one decimal (the error of the last binary place, which
\* makes Python print 0.22499999999999998 for 0.45 / 2.0, is not modelled)
FmtRepr(q) == Sign(q) \o str(Abs(q) \div FScale) \o <<".">>
              \o StripZeros(ZeroPad(Abs(q) % FScale, 4))

DigitVal(c) == CHOOSE d \in 0..9 : Digits[d + 1] = c

IsDigit(c) == \E d \in 0..9 : Digits[d + 1] = c

RECURSIVE IntOf(_)
\* int(s) of a digit string
IntOf(s) == IF Len(s) = 0 THEN 0
            ELSE 10 * IntOf(SubSeq(s, 1, Len(s) - 1)) + DigitVal(s[Len(s)])

RECURSIVE FracOf(_, _)
\* the digits s read as a fraction, in units of 10^-w
FracOf(s, w) == IF w = 0 THEN 0
                ELSE (IF Len(s) = 0 THEN 0 ELSE DigitVal(s[1]) * (10 ^ (w - 1)))
                     + FracOf(IF Len(s) = 0 THEN s ELSE Tail(s), w - 1)

PointAt(s) == CHOOSE i \in 1..Len(s) : s[i] = "."

\* float(s) of a decimal string "[-]ddd.ddd"
float(s) ==
    LET neg == s[1] = "-"
        body == IF neg THEN Tail(s) ELSE s
        p == PointAt(body)
        mag == IntOf(SubSeq(body, 1, p - 1)) * FScale
               + FracOf(SubSeq(body, p + 1, Len(body)), 4)
    IN IF neg THEN -mag ELSE mag

Max(a, b) == IF a >= b THEN a ELSE b

Min(a, b) == IF a <= b THEN a ELSE b

----------------------------------------------------------------------------
(* XML changes.                                                            *)

XMLAttrChange(path, att, value) == [path |-> path, attr |-> att, value |-> value]

\* XMLAttrChangeSet(*changes): a set of changes
XMLAttrChangeSet(changes) == changes

\* PopulationSize(cli_arg, main_config, batch_input_root,
\*                [population]).gen_attr_changelist()[0]
PopulationSizeChanges(pop) ==
    XMLAttrChangeSet({XMLAttrChange(".//arena/distribute/entity", "quantity", str(pop))})

\* the values of attribute att that the change set chgs sets under path
ValuesOf(chgs, path, att) == {c.value : c \in {d \in chgs : d.path = path /\ d.attr = att}}

----------------------------------------------------------------------------
(* Block motion dynamics (block_motion_dynamics.py).                       *)

kMotionPath == ".//arena_map/blocks/motion"

\* BlockMotionDynamicsParser.specs_dict(): the attribute tracked for 'RW'
specs_dict == {"random_walk_prob"}

\* policy_xml_parents['RW']
policy_xml == XMLAttrChange(kMotionPath, "policy",
                            <<"r", "a", "n", "d", "o", "m", "_", "w", "a", "l", "k">>)

\* float * float
FMul(a, b) == (a * b) \div FScale

\* float / float
FDiv(a, b) == (a * FScale) \div b

\* the progression counted from the entry index instead of the step index
Magnitude_entry(base, x, factor) == base + FMul(base * (x + 1), factor)

\* d[1] + d[1] * x * float(attr['factor'])
Magnitude(base, x, factor) == base + FMul(base * x, factor)

\* the list comprehension of gen_dynamics(): one change set per pair d of
\* attr['dynamics'], holding policy_xml and the change of d[0] to values[d]
PerDynamic(a, values) ==
    [i \in 1..Len(a.dynamics) |->
        XMLAttrChangeSet({policy_xml,
                          XMLAttrChange(kMotionPath, a.dynamics[i][1], values[i])})]

RECURSIVE Progression(_, _)
\* what the for loop over x in range(0, n) extends dynamics with
Progression(a, n) ==
    IF n <= 0 THEN <<>>
    ELSE LET x == n - 1
             expx == PerDynamic(a, [i \in 1..Len(a.dynamics) |->
                                       Fmt9(Magnitude(a.dynamics[i][2], x, a.factor))])
         IN Progression(a, n - 1) \o expx

\* factory.gen_dynamics()
gen_dynamics(a) ==
    LET ideal == PerDynamic(a, [i \in 1..Len(a.dynamics) |-> <<"0", ".", "0">>])
    IN ideal \o Progression(a, a.cardinality - 1)

\* directory names counted from 1
ExpDirnames_from1(changes) == [i \in 1..Len(changes) |-> <<"e", "x", "p">> \o str(i)]

\* ['exp' + str(x) for x in range(0, len(changes))]
ExpDirnames(changes) == [i \in 1..Len(changes) |-> <<"e", "x", "p">> \o str(i - 1)]

----------------------------------------------------------------------------
(* Oracle (oracle.py).                                                     *)

\* Oracle.kInfoTypes['entities']
kInfoTypes == <<"caches", "blocks">>

\* str(b) of a bool
StrBool(b) == IF b THEN <<"T", "r", "u", "e">> ELSE <<"F", "a", "l", "s", "e">>

\* s.lower(), for the letters str(bool) produces
Lower(s) == [i \in 1..Len(s) |-> CASE s[i] = "T" -> "t"
                                   [] s[i] = "F" -> "f"
                                   [] OTHER -> s[i]]

RECURSIVE Product_leftmost(_, _)
\* a product whose leftmost element advances on every iteration
Product_leftmost(vals, k) ==
    IF k = 0 THEN << <<>> >>
    ELSE LET rest == Product_leftmost(vals, k - 1)
         IN [j \in 1..(Len(vals) * Len(rest)) |->
                <<vals[((j - 1) % Len(vals)) + 1]>> \o rest[((j - 1) \div Len(vals)) + 1]]

RECURSIVE Product(_, _)
\* list(itertools.product(vals, repeat=k)): the rightmost element advances
\* on every iteration
Product(vals, k) ==
    IF k = 0 THEN << <<>> >>
    ELSE LET rest == Product(vals, k - 1)
         IN [j \in 1..(Len(vals) * Len(rest)) |->
                <<vals[((j - 1) \div Len(rest)) + 1]>> \o rest[((j - 1) % Len(rest)) + 1]]

\* factory.gen_tuples(): 'entities' is in the oracle name only for
\* entities_oracle; otherwise None
gen_tuples(a) ==
    IF a.oracle_name = "entities_oracle"
    THEN PyList([v \in 1..Len(Product(<<FALSE, TRUE>>, Len(kInfoTypes))) |->
                   <<a.oracle_name,
                     [i \in 1..Len(kInfoTypes) |->
                        <<kInfoTypes[i],
                          Lower(StrBool(Product(<<FALSE, TRUE>>, Len(kInfoTypes))[v][i]))>>]>>])
    ELSE PyNone

\* ".//oracle_manager/{0}".format(str(oracle))
OraclePath(oracle) == IF oracle = "entities_oracle" THEN ".//oracle_manager/entities_oracle"
                      ELSE ".//oracle_manager/tasking_oracle"

\* the body of the loop over self.tuples: the change set s of one tuple
OracleChangeSet(tuple) ==
    XMLAttrChangeSet({XMLAttrChange(OraclePath(tuple[1]), tuple[2][i][1], tuple[2][i][2]) :
                        i \in 1..Len(tuple[2])})

\* a merge that stops before the last entry
MergeInto_butlast(items, size_chgs) ==
    [i \in 1..Len(items) |-> IF i < Len(items) THEN items[i] \cup size_chgs ELSE items[i]]

\* exp_chgs |= size_chgs for every entry of the list
MergeInto(items, size_chgs) == [i \in 1..Len(items) |-> items[i] \cup size_chgs]

\* the body of `if not self.attr_changes` of Oracle.gen_attr_changelist():
\* one set per tuple is appended to self.attr_changes, then the population
\* change is merged into every entry
Oracle_generate(items, tups, pop) ==
    LET appended == items \o [i \in 1..Len(tups) |-> OracleChangeSet(tups[i])]
    IN IF pop # NoPopulation
       THEN MergeInto(appended, PopulationSizeChanges(pop))
       ELSE appended

----------------------------------------------------------------------------
(* Task allocation policy set (ta_policy_set.py).                          *)

\* TAPolicySet.kPolicies
kPolicies == << <<"r", "a", "n", "d", "o", "m">>,
                <<"s", "t", "o", "c", "h", "_", "n", "b", "h", "d", "1">>,
                <<"s", "t", "r", "i", "c", "t", "_", "g", "r", "e", "e", "d", "y">>,
                <<"e", "p", "s", "i", "l", "o", "n", "_", "g", "r", "e", "e", "d", "y">>,
                <<"U", "C", "B", "1">> >>

\* [XMLAttrChangeSet(XMLAttrChange(".//task_alloc", "policy", p)) for p in policies]
PolicyChangeSets(pols) ==
    [i \in 1..Len(pols) |->
        XMLAttrChangeSet({XMLAttrChange(".//task_alloc", "policy", pols[i])})]

\* size_chgs of TAPolicySet.gen_attr_changelist()
TAPolicySet_size_chgs(pop) ==
    IF pop # NoPopulation THEN PopulationSizeChanges(pop) ELSE XMLAttrChangeSet({})

\* the body of `if not self.attr_changes` of TAPolicySet.gen_attr_changelist()
TAPolicySet_generate(pols, pop) ==
    MergeInto(PolicyChangeSets(pols), TAPolicySet_size_chgs(pop))

----------------------------------------------------------------------------
(* Dynamic cache (dynamic_cache.py).                                       *)

\* DynamicCache.kCacheDimFrac = 0.15
kCacheDimFrac == (15 * FScale) \div 100

\* the literal 0.75
kNewCacheTolFrac == (75 * FScale) \div 100

\* the literal 2.0
kTwo == 2 * FScale

\* max(e.ur.x * kCacheDimFrac, e.ur.y * kCacheDimFrac)
CacheDim(e) == Max(FMul(e.x, kCacheDimFrac), FMul(e.y, kCacheDimFrac))

\* min(e.ur.x * kCacheDimFrac, e.ur.y * kCacheDimFrac)
MinDist(e) == Min(FMul(e.x, kCacheDimFrac), FMul(e.y, kCacheDimFrac))

\* max(e.ur.x * 0.75 * kCacheDimFrac, e.ur.y * 0.75 * kCacheDimFrac)
NewCacheTol(e) == Max(FMul(FMul(e.x, kNewCacheTolFrac), kCacheDimFrac),
                      FMul(FMul(e.y, kNewCacheTolFrac), kCacheDimFrac))

\* "{0}:{1:.9f}".format(lower, upper)
FmtRange(lower, upper) == FmtRepr(lower) \o <<":">> \o Fmt9(upper)

kTrue == <<"t", "r", "u", "e">>

kFalse == <<"f", "a", "l", "s", "e">>

\* the XMLAttrChangeSet built for one extent e
DynamicCache_changes(e) ==
    XMLAttrChangeSet({
        XMLAttrChange(".//loop_functions/caches/dynamic", "enable", kTrue),
        XMLAttrChange(".//loop_functions/caches/static", "enable", kFalse),
        XMLAttrChange(".//loop_functions/caches/dynamic", "min_dist", Fmt9(MinDist(e))),
        XMLAttrChange(".//loop_functions/caches", "dimension", Fmt9(CacheDim(e))),
        XMLAttrChange(".//cache_sel_matrix", "cache_prox_dist", Fmt9(CacheDim(e))),
        XMLAttrChange(".//cache_sel_matrix", "new_cache_tol", Fmt9(NewCacheTol(e))),
        XMLAttrChange(".//cache_sel_matrix", "nest_prox_dist", Fmt9(CacheDim(e))),
        XMLAttrChange(".//cache_sel_matrix", "block_prox_dist", Fmt9(CacheDim(e))),
        XMLAttrChange(".//block_sel_matrix/pickup_policy", "prox_dist", Fmt9(CacheDim(e))),
        XMLAttrChange(".//cache_sel_matrix", "site_xrange",
                      FmtRange(FDiv(CacheDim(e), kTwo), e.x - FDiv(CacheDim(e), kTwo))),
        XMLAttrChange(".//cache_sel_matrix", "site_yrange",
                      FmtRange(FDiv(CacheDim(e), kTwo), e.y - FDiv(CacheDim(e), kTwo)))})

\* the list comprehension over self.extents
DynamicCache_generate(exts) == [i \in 1..Len(exts) |-> DynamicCache_changes(exts[i])]

----------------------------------------------------------------------------
(* Inputs.                                                                 *)

Families == {"block_motion_dynamics", "oracle", "ta_policy_set", "dynamic_cache"}

Callers == {1, 2}

NoAttr == [dynamics |-> <<>>, factor |-> 0, cardinality |-> 0, oracle_name |-> "",
           population |-> NoPopulation, extents |-> <<>>]

BaseMagnitudes == {(b * FScale) \div 10 : b \in 0..MaxBase}

Factors == {(f * FScale) \div 10 : f \in 0..MaxFactor}

\* attr['dynamics']: one (attribute, base magnitude) pair per dynamics
\* specification of the command line
DynamicsLists == UNION {[1..n -> specs_dict \X BaseMagnitudes] : n \in 1..MaxDyn}

Populations == {NoPopulation} \cup (0..MaxPop)

Coordinates == {c * FScale : c \in 0..MaxExtent}

\* ArenaExtent: the upper right corner e.ur
ArenaExtents == [x : Coordinates, y : Coordinates]

ExtentLists == {<<e>> : e \in ArenaExtents}
               \cup {<<e[1], e[2]>> : e \in ArenaExtents \X ArenaExtents}

Attrs(c) ==
    CASE c = "block_motion_dynamics" ->
            {[NoAttr EXCEPT !.dynamics = d, !.factor = f, !.cardinality = n] :
                d \in DynamicsLists, f \in Factors, n \in 1..MaxCard}
      [] c = "oracle" ->
            {[NoAttr EXCEPT !.oracle_name = o, !.population = p] :
                o \in {"entities_oracle", "tasking_oracle"}, p \in Populations}
      [] c = "ta_policy_set" ->
            {[NoAttr EXCEPT !.population = p] : p \in Populations}
      [] c = "dynamic_cache" ->
            {[NoAttr EXCEPT !.extents = l] : l \in ExtentLists}

NoLocal == [i |-> 0, own |-> FALSE]

\* no Parser has run
NoParse == [status |-> "unparsed"]

Init ==
    /\ criteria \in Families
    /\ attr \in Attrs(criteria)
    /\ constructed = FALSE
    /\ dynamics = <<>>
    /\ tuples = PyNone
    /\ policies = <<>>
    /\ population = NoPopulation
    /\ extents = <<>>
    /\ attr_changes = PyNone
    /\ ncalls = 0
    /\ ret = PyNone
    /\ first = PyNone
    /\ dirnames = PyNone
    /\ raised = ""
    /\ pc = [t \in Callers |-> "idle"]
    /\ local = [t \in Callers |-> NoLocal]
    /\ tret = [t \in Callers |-> PyNone]
    /\ cli_arg = <<>>
    /\ parsed = NoParse
    /\ pickled = <<>>
    /\ xticks = PyNone
    /\ xticklabels = PyNone

----------------------------------------------------------------------------
(* Construction.                                                           *)

\* factory.__init__ of block_motion_dynamics.py: BlockMotionDynamics.__init__
\* is given gen_dynamics()
BlockMotionDynamics_init ==
    /\ criteria = "block_motion_dynamics"
    /\ ~constructed
    /\ constructed' = TRUE
    /\ dynamics' = gen_dynamics(attr)
    /\ UNCHANGED <<criteria, attr, tuples, policies, population, extents, attr_changes,
                   ncalls, ret, first, dirnames, raised, pc, local, tret,
                   cli_arg, parsed, pickled, xticks, xticklabels>>

\* factory.__init__ of oracle.py and Oracle.__init__
Oracle_init ==
    /\ criteria = "oracle"
    /\ ~constructed
    /\ constructed' = TRUE
    /\ tuples' = gen_tuples(attr)
    /\ population' = attr.population
    /\ attr_changes' = PyList(<<>>)
    /\ UNCHANGED <<criteria, attr, dynamics, policies, extents,
                   ncalls, ret, first, dirnames, raised, pc, local, tret,
                   cli_arg, parsed, pickled, xticks, xticklabels>>

\* factory.__init__ of ta_policy_set.py and TAPolicySet.__init__
TAPolicySet_init ==
    /\ criteria = "ta_policy_set"
    /\ ~constructed
    /\ constructed' = TRUE
    /\ policies' = kPolicies
    /\ population' = attr.population
    /\ attr_changes' = PyList(<<>>)
    /\ UNCHANGED <<criteria, attr, dynamics, tuples, extents,
                   ncalls, ret, first, dirnames, raised, pc, local, tret,
                   cli_arg, parsed, pickled, xticks, xticklabels>>

\* DynamicCache.__init__
DynamicCache_init ==
    /\ criteria = "dynamic_cache"
    /\ ~constructed
    /\ constructed' = TRUE
    /\ extents' = attr.extents
    /\ attr_changes' = PyNone
    /\ UNCHANGED <<criteria, attr, dynamics, tuples, policies, population,
                   ncalls, ret, first, dirnames, raised, pc, local, tret,
                   cli_arg, parsed, pickled, xticks, xticklabels>>

----------------------------------------------------------------------------
(* gen_attr_changelist() and gen_exp_dirnames(), called in sequence.       *)

\* a guard that takes every list for unpopulated
NotAttrChanges_any(ac) == ac.tag = "list"

\* `not self.attr_changes`: the list is empty
NotAttrChanges(ac) == Len(ac.items) = 0

\* `self.attr_changes is None`
AttrChangesIsNone(ac) == ac.tag = "None"

\* the call returns v
Returns(v) ==
    /\ ret' = v
    /\ first' = IF ncalls = 0 \/ first.tag = "None" THEN v ELSE first
    /\ ncalls' = ncalls + 1
    /\ raised' = ""

\* the call raises exception e
Raises(e) ==
    /\ raised' = e
    /\ ncalls' = ncalls + 1
    /\ UNCHANGED <<ret, first>>

\* BlockMotionDynamics.gen_attr_changelist(): return self.dynamics
BlockMotionDynamics_call ==
    /\ criteria = "block_motion_dynamics"
    /\ constructed
    /\ ncalls < MaxCalls
    /\ Returns(PyList(dynamics))
    /\ UNCHANGED <<criteria, attr, constructed, dynamics, tuples, policies, population,
                   extents, attr_changes, pc, local, tret,
                   cli_arg, parsed, pickled>>

\* Oracle.gen_attr_changelist(); iterating self.tuples raises TypeError
\* when gen_tuples() returned None
Oracle_call ==
    /\ criteria = "oracle"
    /\ constructed
    /\ ncalls < MaxCalls
    /\ IF NotAttrChanges(attr_changes)
       THEN IF tuples.tag = "None"
            THEN Raises("TypeError") /\ UNCHANGED attr_changes
            ELSE /\ attr_changes' = PyList(Oracle_generate(attr_changes.items,
                                                           tuples.items, population))
                 /\ Returns(attr_changes')
       ELSE Returns(attr_changes) /\ UNCHANGED attr_changes
    /\ UNCHANGED <<criteria, attr, constructed, dynamics, tuples, policies, population,
                   extents, pc, local, tret,
                   cli_arg, parsed, pickled>>

\* TAPolicySet.gen_attr_changelist()
TAPolicySet_call ==
    /\ criteria = "ta_policy_set"
    /\ constructed
    /\ ncalls < MaxCalls
    /\ IF NotAttrChanges(attr_changes)
       THEN /\ attr_changes' = PyList(TAPolicySet_generate(policies, population))
            /\ Returns(attr_changes')
       ELSE Returns(attr_changes) /\ UNCHANGED attr_changes
    /\ UNCHANGED <<criteria, attr, constructed, dynamics, tuples, policies, population,
                   extents, pc, local, tret,
                   cli_arg, parsed, pickled>>

\* DynamicCache.gen_attr_changelist()
DynamicCache_call ==
    /\ criteria = "dynamic_cache"
    /\ constructed
    /\ ncalls < MaxCalls
    /\ IF AttrChangesIsNone(attr_changes)
       THEN /\ attr_changes' = PyList(DynamicCache_generate(extents))
            /\ Returns(attr_changes')
       ELSE Returns(attr_changes) /\ UNCHANGED attr_changes
    /\ UNCHANGED <<criteria, attr, constructed, dynamics, tuples, policies, population,
                   extents, pc, local, tret,
                   cli_arg, parsed, pickled>>

\* gen_exp_dirnames(): changes = self.gen_attr_changelist(), then one name
\* per entry of changes
DirnamesOfCall ==
    dirnames' = IF raised' = "" THEN PyList(ExpDirnames(ret'.items)) ELSE dirnames

\* neither plotting result is touched by the two methods
NoPlot == UNCHANGED <<xticks, xticklabels>>

BlockMotionDynamics_gen_attr_changelist ==
    BlockMotionDynamics_call /\ UNCHANGED dirnames /\ NoPlot

BlockMotionDynamics_gen_exp_dirnames ==
    BlockMotionDynamics_call /\ DirnamesOfCall /\ NoPlot

Oracle_gen_attr_changelist == Oracle_call /\ UNCHANGED dirnames /\ NoPlot

Oracle_gen_exp_dirnames == Oracle_call /\ DirnamesOfCall /\ NoPlot

TAPolicySet_gen_attr_changelist == TAPolicySet_call /\ UNCHANGED dirnames /\ NoPlot

TAPolicySet_gen_exp_dirnames == TAPolicySet_call /\ DirnamesOfCall /\ NoPlot

DynamicCache_gen_attr_changelist == DynamicCache_call /\ UNCHANGED dirnames /\ NoPlot

Next ==
    \/ BlockMotionDynamics_init
    \/ Oracle_init
    \/ TAPolicySet_init
    \/ DynamicCache_init
    \/ BlockMotionDynamics_gen_attr_changelist
    \/ BlockMotionDynamics_gen_exp_dirnames
    \/ Oracle_gen_attr_changelist
    \/ Oracle_gen_exp_dirnames
    \/ TAPolicySet_gen_attr_changelist
    \/ TAPolicySet_gen_exp_dirnames
    \/ DynamicCache_gen_attr_changelist

Spec == Init /\ [][Next]_vars

----------------------------------------------------------------------------
(* graph_xticks() and graph_xticklabels() of the plotting stage.  The      *)
(* pipeline persists the change set of experiment i in directory exp<i>    *)
(* before anything is plotted.                                             *)

\* the list of ticks returned for the directories dirs
Ticks(dirs, items) == [tag |-> "list", dirs |-> dirs, items |-> items]

\* a float among the ticks
PyFloat(v) == [tag |-> "float", val |-> v]

\* float(i) of an int
FloatOfInt(i) == i * FScale

\* `'arena_map/blocks/motion' in path`: of the paths that occur in change
\* sets, the only one with this substring is the block motion path
InMotionPath(path) == path \in {kMotionPath}

\* the first loop of calc_xtick: the value of the motion policy, None when
\* the change set has none
MotionPolicy(exp_def) ==
    LET found == {c \in exp_def : InMotionPath(c.path) /\ c.attr = "policy"}
    IN IF found = {} THEN PyNone ELSE PyFloat((CHOOSE c \in found : TRUE).value)

\* a tick recovery that reads the probability whatever the policy is
calc_xtick_anypolicy(exp_def) ==
    LET found == {c \in exp_def : InMotionPath(c.path) /\ c.attr = "random_walk_prob"}
    IN IF found # {}
       THEN PyFloat(float((CHOOSE c \in found : TRUE).value))
       ELSE PyNone

\* BlockMotionDynamics.calc_xtick(exp_def); a change set holds at most one
\* change per (path, attribute), so the order of iteration does not matter
calc_xtick(exp_def) ==
    LET policy == MotionPolicy(exp_def)
        found == {c \in exp_def : InMotionPath(c.path) /\ c.attr = "random_walk_prob"}
    IN IF policy.tag # "None" /\ policy.val = policy_xml.value /\ found # {}
       THEN PyFloat(float((CHOOSE c \in found : TRUE).value))
       ELSE PyNone

\* the directory exp<i> holds the pickle of index i + 1
DirIndex(d) == IntOf(SubSeq(d, 4, Len(d))) + 1

\* every directory read as exp0
unpickle_exp0(d) == pickled[1]

\* XMLAttrChangeSet.unpickle(os.path.join(batch_input_root, d, kPickleLeaf))
unpickle(d) == pickled[DirIndex(d)]

\* the loop of BlockMotionDynamics.graph_xticks()
BlockMotionDynamics_xticks(exp_dirs) ==
    [i \in 1..Len(exp_dirs) |-> calc_xtick(unpickle(exp_dirs[i]))]

\* [float(i) for i in range(1, len(dirs) + 1)]
TAPolicySet_xticks(dirs) == [i \in 1..Len(dirs) |-> PyFloat(FloatOfInt(i))]

\* the labels of TAPolicySet.graph_xticklabels(), policy names first
kPolicyLabels_byname == << <<"M", "A", "T", "-", "O", "P", "T">>,
                           <<"R", "a", "n", "d", "o", "m">>,
                           <<"S", "T", "O", "C", "H", "-", "N", "1">>,
                           <<"U", "C", "B", "1">>,
                           <<"$", "\\", "e", "p", "s", "i", "l", "o", "n", "$",
                             "-", "g", "r", "e", "e", "d", "y">> >>

\* the list TAPolicySet.graph_xticklabels() returns
kPolicyLabels == << <<"R", "a", "n", "d", "o", "m">>,
                    <<"S", "T", "O", "C", "H", "-", "N", "1">>,
                    <<"M", "A", "T", "-", "O", "P", "T">>,
                    <<"$", "\\", "e", "p", "s", "i", "l", "o", "n", "$",
                      "-", "g", "r", "e", "e", "d", "y">>,
                    <<"U", "C", "B", "1">> >>

\* change sets found in an experiment directory that this criteria did not
\* write: no motion change at all, a policy without the probability, the
\* probability without a policy, the probability under another policy
ForeignDefs ==
    { XMLAttrChangeSet({XMLAttrChange(".//task_alloc", "policy", kPolicies[1])}),
      XMLAttrChangeSet({policy_xml}),
      XMLAttrChangeSet({XMLAttrChange(kMotionPath, "random_walk_prob", Fmt9(FScale \div 2))}),
      XMLAttrChangeSet({XMLAttrChange(kMotionPath, "policy", <<"n", "o", "n", "e">>),
                        XMLAttrChange(kMotionPath, "random_walk_prob",
                                      Fmt9(FScale \div 2))}) }

\* the contiguous sublists of a list of directory names
Sublists(dirs) == {SubSeq(dirs, a, b) : a \in 1..Len(dirs), b \in 1..Len(dirs)}

\* the pipeline pickles the change set of every experiment into its directory
Persist ==
    /\ criteria = "block_motion_dynamics"
    /\ constructed
    /\ pickled = <<>>
    /\ pickled' = dynamics
    /\ UNCHANGED <<criteria, attr, constructed, dynamics, tuples, policies, population,
                   extents, attr_changes, ncalls, ret, first, dirnames, raised,
                   pc, local, tret, cli_arg, parsed, xticks, xticklabels>>

\* one experiment directory holds the pickle of another change set when
\* the plotting stage starts
PersistForeign ==
    /\ criteria = "block_motion_dynamics"
    /\ pickled # <<>>
    /\ xticks = PyNone
    /\ \A i \in 1..Len(pickled) : pickled[i] = dynamics[i]
    /\ \E i \in 1..Len(pickled), def \in ForeignDefs :
            pickled' = [pickled EXCEPT ![i] = def]
    /\ UNCHANGED <<criteria, attr, constructed, dynamics, tuples, policies, population,
                   extents, attr_changes, ncalls, ret, first, dirnames, raised,
                   pc, local, tret, cli_arg, parsed, xticks, xticklabels>>

\* BlockMotionDynamics.graph_xticks(cmdopts, exp_dirs) with a list
BlockMotionDynamics_graph_xticks_dirs ==
    /\ criteria = "block_motion_dynamics"
    /\ pickled # <<>>
    /\ \E exp_dirs \in Sublists(ExpDirnames(pickled)) :
            xticks' = Ticks(exp_dirs, BlockMotionDynamics_xticks(exp_dirs))
    /\ UNCHANGED <<criteria, attr, constructed, dynamics, tuples, policies, population,
                   extents, attr_changes, ncalls, ret, first, dirnames, raised,
                   pc, local, tret, cli_arg, parsed, pickled, xticklabels>>

\* BlockMotionDynamics.graph_xticks(cmdopts): exp_dirs is None, the names
\* come from gen_exp_dirnames()
BlockMotionDynamics_graph_xticks ==
    /\ pickled # <<>>
    /\ BlockMotionDynamics_call
    /\ DirnamesOfCall
    /\ xticks' = Ticks(dirnames'.items, BlockMotionDynamics_xticks(dirnames'.items))
    /\ UNCHANGED xticklabels

\* TAPolicySet.graph_xticks(cmdopts, exp_dirs) with a list
TAPolicySet_graph_xticks_dirs ==
    /\ criteria = "ta_policy_set"
    /\ constructed
    /\ \E exp_dirs \in Sublists(ExpDirnames(policies)) :
            xticks' = Ticks(exp_dirs, TAPolicySet_xticks(exp_dirs))
    /\ UNCHANGED <<criteria, attr, constructed, dynamics, tuples, policies, population,
                   extents, attr_changes, ncalls, ret, first, dirnames, raised,
                   pc, local, tret, cli_arg, parsed, pickled, xticklabels>>

\* TAPolicySet.graph_xticks(cmdopts): exp_dirs is None
TAPolicySet_graph_xticks ==
    /\ TAPolicySet_call
    /\ DirnamesOfCall
    /\ xticks' = Ticks(dirnames'.items, TAPolicySet_xticks(dirnames'.items))
    /\ UNCHANGED xticklabels

\* the list of labels returned for the directories dirs
Labels(dirs, items) == [tag |-> "list", dirs |-> dirs, items |-> items]

\* TAPolicySet.graph_xticklabels(cmdopts, exp_dirs) with a list; exp_dirs
\* is not read
TAPolicySet_graph_xticklabels_dirs ==
    /\ criteria = "ta_policy_set"
    /\ constructed
    /\ \E exp_dirs \in Sublists(ExpDirnames(policies)) :
            xticklabels' = Labels(exp_dirs, kPolicyLabels)
    /\ UNCHANGED <<criteria, attr, constructed, dynamics, tuples, policies, population,
                   extents, attr_changes, ncalls, ret, first, dirnames, raised,
                   pc, local, tret, cli_arg, parsed, pickled, xticks>>

\* TAPolicySet.graph_xticklabels(cmdopts): exp_dirs is None and stands for
\* the directories of all variants
TAPolicySet_graph_xticklabels ==
    /\ criteria = "ta_policy_set"
    /\ constructed
    /\ xticklabels' = Labels(ExpDirnames(policies), kPolicyLabels)
    /\ UNCHANGED <<criteria, attr, constructed, dynamics, tuples, policies, population,
                   extents, attr_changes, ncalls, ret, first, dirnames, raised,
                   pc, local, tret, cli_arg, parsed, pickled, xticks>>

\* the command lines whose batch is plotted: one tracked pair or two, growth
\* factor 0.0 or 0.5, cardinalities 1 .. MaxPlotCard
PlotDynamics == { <<<<"random_walk_prob", 0>>>>,
                  <<<<"random_walk_prob", FScale \div 10>>>>,
                  <<<<"random_walk_prob", FScale \div 10>>,
                    <<"random_walk_prob", FScale \div 5>>>> }

PlotFactors == {0, FScale \div 2}

PlotAttrs(c) ==
    IF c = "block_motion_dynamics"
    THEN {[NoAttr EXCEPT !.dynamics = d, !.factor = f, !.cardinality = n] :
            d \in PlotDynamics, f \in PlotFactors, n \in 1..MaxPlotCard}
    ELSE Attrs(c)

InitPlot ==
    /\ criteria \in {"block_motion_dynamics", "ta_policy_set"}
    /\ attr \in PlotAttrs(criteria)
    /\ constructed = FALSE
    /\ dynamics = <<>>
    /\ tuples = PyNone
    /\ policies = <<>>
    /\ population = NoPopulation
    /\ extents = <<>>
    /\ attr_changes = PyNone
    /\ ncalls = 0
    /\ ret = PyNone
    /\ first = PyNone
    /\ dirnames = PyNone
    /\ raised = ""
    /\ pc = [t \in Callers |-> "idle"]
    /\ local = [t \in Callers |-> NoLocal]
    /\ tret = [t \in Callers |-> PyNone]
    /\ cli_arg = <<>>
    /\ parsed = NoParse
    /\ pickled = <<>>
    /\ xticks = PyNone
    /\ xticklabels = PyNone

NextPlot ==
    \/ BlockMotionDynamics_init
    \/ TAPolicySet_init
    \/ TAPolicySet_gen_exp_dirnames
    \/ Persist
    \/ PersistForeign
    \/ BlockMotionDynamics_graph_xticks_dirs
    \/ BlockMotionDynamics_graph_xticks
    \/ TAPolicySet_graph_xticks_dirs
    \/ TAPolicySet_graph_xticks
    \/ TAPolicySet_graph_xticklabels
    \/ TAPolicySet_graph_xticklabels_dirs

SpecPlot == InitPlot /\ [][NextPlot]_vars

----------------------------------------------------------------------------
(* gen_attr_changelist() called by two callers at once on one object.      *)
(* A step is what a caller does between two accesses of self.attr_changes. *)

\* no caller has filled self.attr_changes yet
Unpopulated == Len(attr_changes.items) = 0

SetLocal(t, i, own) == local' = [local EXCEPT ![t] = [i |-> i, own |-> own]]

Goto(t, label) == pc' = [pc EXCEPT ![t] = label]

ConcUnchanged == UNCHANGED <<criteria, attr, constructed, dynamics, tuples, policies,
                             population, extents, ncalls, ret, first, dirnames, raised,
                             cli_arg, parsed, pickled, xticks, xticklabels>>

\* a caller enters gen_attr_changelist() while the cache is unpopulated
Invoke(t) ==
    /\ criteria \in {"oracle", "ta_policy_set", "dynamic_cache"}
    /\ constructed
    /\ pc[t] = "idle"
    /\ Unpopulated
    /\ Goto(t, "check")
    /\ ConcUnchanged
    /\ UNCHANGED <<attr_changes, local, tret>>

\* Oracle: `if not self.attr_changes`, then the start of the loop over
\* self.tuples (TypeError when it is None)
Oracle_check(t) ==
    /\ criteria = "oracle"
    /\ pc[t] = "check"
    /\ IF NotAttrChanges(attr_changes)
       THEN IF tuples.tag = "None"
            THEN Goto(t, "raised") /\ UNCHANGED local
            ELSE Goto(t, "append") /\ SetLocal(t, 1, FALSE)
       ELSE Goto(t, "return") /\ UNCHANGED local
    /\ ConcUnchanged
    /\ UNCHANGED <<attr_changes, tret>>

\* Oracle: one iteration of the loop over self.tuples, or its end and
\* `if self.population is not None`
Oracle_append(t) ==
    /\ criteria = "oracle"
    /\ pc[t] = "append"
    /\ IF local[t].i <= Len(tuples.items)
       THEN /\ attr_changes' = PyList(Append(attr_changes.items,
                                             OracleChangeSet(tuples.items[local[t].i])))
            /\ SetLocal(t, local[t].i + 1, FALSE)
            /\ UNCHANGED pc
       ELSE /\ IF population # NoPopulation
               THEN Goto(t, "merge") /\ SetLocal(t, 1, TRUE)
               ELSE Goto(t, "return") /\ UNCHANGED local
            /\ UNCHANGED attr_changes
    /\ ConcUnchanged
    /\ UNCHANGED tret

\* Oracle: one iteration of `for exp_chgs in self.attr_changes`, or its end
Oracle_merge(t) ==
    /\ criteria = "oracle"
    /\ pc[t] = "merge"
    /\ IF local[t].i <= Len(attr_changes.items)
       THEN /\ attr_changes' = PyList([attr_changes.items EXCEPT ![local[t].i] =
                                          @ \cup PopulationSizeChanges(population)])
            /\ SetLocal(t, local[t].i + 1, TRUE)
            /\ UNCHANGED pc
       ELSE Goto(t, "return") /\ UNCHANGED <<attr_changes, local>>
    /\ ConcUnchanged
    /\ UNCHANGED tret

\* TAPolicySet: `if not self.attr_changes`
TAPolicySet_check(t) ==
    /\ criteria = "ta_policy_set"
    /\ pc[t] = "check"
    /\ IF NotAttrChanges(attr_changes) THEN Goto(t, "assign") ELSE Goto(t, "return")
    /\ ConcUnchanged
    /\ UNCHANGED <<attr_changes, local, tret>>

\* TAPolicySet: self.attr_changes = [...]; a caller that is iterating the
\* list this one replaces keeps iterating a list nobody refers to any more
TAPolicySet_assign(t) ==
    /\ criteria = "ta_policy_set"
    /\ pc[t] = "assign"
    /\ attr_changes' = PyList(PolicyChangeSets(policies))
    /\ local' = [u \in Callers |-> [local[u] EXCEPT !.own = FALSE]]
    /\ Goto(t, "iter")
    /\ ConcUnchanged
    /\ UNCHANGED tret

\* TAPolicySet: `for chgset in self.attr_changes` takes the list that
\* self.attr_changes refers to now
TAPolicySet_iter(t) ==
    /\ criteria = "ta_policy_set"
    /\ pc[t] = "iter"
    /\ SetLocal(t, 1, TRUE)
    /\ Goto(t, "merge")
    /\ ConcUnchanged
    /\ UNCHANGED <<attr_changes, tret>>

\* TAPolicySet: one iteration of chgset |= size_chgs, or the end of the loop
TAPolicySet_merge(t) ==
    /\ criteria = "ta_policy_set"
    /\ pc[t] = "merge"
    /\ IF local[t].i <= Len(policies)
       THEN /\ attr_changes' = IF local[t].own
                               THEN PyList([attr_changes.items EXCEPT ![local[t].i] =
                                               @ \cup TAPolicySet_size_chgs(population)])
                               ELSE attr_changes
            /\ SetLocal(t, local[t].i + 1, local[t].own)
            /\ UNCHANGED pc
       ELSE Goto(t, "return") /\ UNCHANGED <<attr_changes, local>>
    /\ ConcUnchanged
    /\ UNCHANGED tret

\* DynamicCache: `if self.attr_changes is None`
DynamicCache_check(t) ==
    /\ criteria = "dynamic_cache"
    /\ pc[t] = "check"
    /\ IF AttrChangesIsNone(attr_changes) THEN Goto(t, "assign") ELSE Goto(t, "return")
    /\ ConcUnchanged
    /\ UNCHANGED <<attr_changes, local, tret>>

\* DynamicCache: self.attr_changes = [...]
DynamicCache_assign(t) ==
    /\ criteria = "dynamic_cache"
    /\ pc[t] = "assign"
    /\ attr_changes' = PyList(DynamicCache_generate(extents))
    /\ Goto(t, "return")
    /\ ConcUnchanged
    /\ UNCHANGED <<local, tret>>

\* return self.attr_changes: the caller gets the list as it is now
Return(t) ==
    /\ pc[t] = "return"
    /\ tret' = [tret EXCEPT ![t] = attr_changes]
    /\ Goto(t, "done")
    /\ ConcUnchanged
    /\ UNCHANGED <<attr_changes, local>>

ConcAttrs(c) ==
    IF c = "dynamic_cache"
    THEN {[NoAttr EXCEPT !.extents = <<e>>] : e \in ArenaExtents}
    ELSE Attrs(c)

InitConc ==
    /\ criteria \in {"oracle", "ta_policy_set", "dynamic_cache"}
    /\ attr \in ConcAttrs(criteria)
    /\ constructed = FALSE
    /\ dynamics = <<>>
    /\ tuples = PyNone
    /\ policies = <<>>
    /\ population = NoPopulation
    /\ extents = <<>>
    /\ attr_changes = PyNone
    /\ ncalls = 0
    /\ ret = PyNone
    /\ first = PyNone
    /\ dirnames = PyNone
    /\ raised = ""
    /\ pc = [t \in Callers |-> "idle"]
    /\ local = [t \in Callers |-> NoLocal]
    /\ tret = [t \in Callers |-> PyNone]
    /\ cli_arg = <<>>
    /\ parsed = NoParse
    /\ pickled = <<>>
    /\ xticks = PyNone
    /\ xticklabels = PyNone

NextConc ==
    \/ Oracle_init
    \/ TAPolicySet_init
    \/ DynamicCache_init
    \/ \E t \in Callers : Invoke(t)
    \/ \E t \in Callers : Oracle_check(t)
    \/ \E t \in Callers : Oracle_append(t)
    \/ \E t \in Callers : Oracle_merge(t)
    \/ \E t \in Callers : TAPolicySet_check(t)
    \/ \E t \in Callers : TAPolicySet_assign(t)
    \/ \E t \in Callers : TAPolicySet_iter(t)
    \/ \E t \in Callers : TAPolicySet_merge(t)
    \/ \E t \in Callers : DynamicCache_check(t)
    \/ \E t \in Callers : DynamicCache_assign(t)
    \/ \E t \in Callers : Return(t)

SpecConc == InitConc /\ [][NextConc]_vars

\* what one call on a newly constructed object returns
SequentialResult ==
    CASE criteria = "oracle" -> PyList(Oracle_generate(<<>>, tuples.items, population))
      [] criteria = "ta_policy_set" -> PyList(TAPolicySet_generate(policies, population))
      [] criteria = "dynamic_cache" -> PyList(DynamicCache_generate(extents))
      [] OTHER -> PyList(dynamics)

----------------------------------------------------------------------------
(* The parsers of the criteria strings (oracle.py, ta_policy_set.py,       *)
(* temporal_variance_parser.py).                                           *)

\* the word w stands in s at position i
MatchAt(s, i, w) == i >= 1 /\ i + Len(w) - 1 <= Len(s) /\ SubSeq(s, i, i + Len(w) - 1) = w

\* `w in s`
Contains(s, w) == \E i \in 1..Len(s) : MatchAt(s, i, w)

\* the least member of a non-empty set of positions
Leftmost(S) == CHOOSE i \in S : \A j \in S : i <= j

\* [0-9]+ matched greedily from position i, where a digit stands: the
\* position of its last digit
DigitsEnd(s, i) == Leftmost({j \in i..Len(s) : j = Len(s) \/ ~IsDigit(s[j + 1])})

\* re.search of a pattern `<word>[0-9]+` for the words of ws: the match at
\* the leftmost position where a word of ws is followed by a digit, as
\* [at |-> position, word |-> word, text |-> matched text]; at = 0 is None
SearchWordDigits(s, ws) ==
    LET hits == {i \in 1..Len(s) :
                    \E w \in ws : MatchAt(s, i, w) /\ i + Len(w) <= Len(s)
                                  /\ IsDigit(s[i + Len(w)])}
    IN IF hits = {} THEN [at |-> 0, word |-> <<>>, text |-> <<>>]
       ELSE LET i == Leftmost(hits)
                w == CHOOSE w \in ws : MatchAt(s, i, w) /\ i + Len(w) <= Len(s)
                                       /\ IsDigit(s[i + Len(w)])
            IN [at |-> i, word |-> w, text |-> SubSeq(s, i, DigitsEnd(s, i + Len(w)))]

\* re.search of an alternation w1|w2|...: the leftmost position where an
\* alternative matches, and there the first alternative of alts that does
SearchAlternation(s, alts) ==
    LET hits == {i \in 1..Len(s) : \E k \in 1..Len(alts) : MatchAt(s, i, alts[k])}
    IN IF hits = {} THEN [at |-> 0, word |-> <<>>]
       ELSE LET i == Leftmost(hits)
                k == Leftmost({k \in 1..Len(alts) : MatchAt(s, i, alts[k])})
            IN [at |-> i, word |-> alts[k]]

RECURSIVE split(_)
\* s.split('.')
split(s) ==
    LET dots == {i \in 1..Len(s) : s[i] = "."}
    IN IF dots = {} THEN <<s>>
       ELSE LET i == Leftmost(dots)
            IN <<SubSeq(s, 1, i - 1)>> \o split(SubSeq(s, i + 1, Len(s)))

\* text[n:]
From(text, n) == SubSeq(text, n + 1, Len(text))

kEntities == <<"e", "n", "t", "i", "t", "i", "e", "s">>

kTasking == <<"t", "a", "s", "k", "i", "n", "g">>

kAll == <<"a", "l", "l">>

kStep == <<"S", "t", "e", "p">>

kStepU == <<"S", "t", "e", "p", "U">>

kStepD == <<"S", "t", "e", "p", "D">>

\* the alternatives of "BC|BM|M"
kVarianceTypes == << <<"B", "C">>, <<"B", "M">>, <<"M">> >>

\* the alternatives of "Sine|Square|Sawtooth|Step[UD]|Constant"
kWaveformTypes == << <<"S", "i", "n", "e">>,
                     <<"S", "q", "u", "a", "r", "e">>,
                     <<"S", "a", "w", "t", "o", "o", "t", "h">>,
                     kStepU,
                     kStepD,
                     <<"C", "o", "n", "s", "t", "a", "n", "t">> >>

\* res = re.search(r"\.Z[0-9]+", criteria_str);
\* int(res.group(0)[2:]) if res is not None, else None
ParsePopulation(s) ==
    LET res == SearchWordDigits(s, {<<".", "Z">>})
    IN IF res.at # 0 THEN IntOf(From(res.text, 2)) ELSE NoPopulation

\* what a parser call ended in: a returned dict or a raised exception
Returned(d) == [status |-> "returned", ret |-> d]

Raised(e) == [status |-> e, ret |-> <<>>]

\* Parser.__call__ of oracle.py
Oracle_Parser(criteria_str) ==
    LET name == IF Contains(criteria_str, kEntities) THEN "entities"
                ELSE IF Contains(criteria_str, kTasking) THEN "tasking"
                ELSE ""
    IN Returned([oracle_type |-> name,
                 oracle_name |-> IF name = "entities" THEN "entities_oracle"
                                 ELSE IF name = "tasking" THEN "tasking_oracle"
                                 ELSE "",
                 population |-> ParsePopulation(criteria_str)])

\* Parser.__call__ of ta_policy_set.py; the dict has the key population
\* only when the string has three segments
TAPolicySet_Parser(arg) ==
    LET segs == split(arg)
        res == SearchWordDigits(segs[3], {<<"Z">>})
    IN IF Len(segs) < 2 THEN Raised("IndexError")
       ELSE IF segs[2] # kAll THEN Raised("AssertionError")
       ELSE IF Len(segs) = 3
            THEN IF res.at = 0 THEN Raised("AssertionError")
                 ELSE Returned([keys |-> {"population"},
                                population |-> IntOf(From(res.text, 1))])
            ELSE Returned([keys |-> {}, population |-> NoPopulation])

\* res = re.search("Step[UD][0-9]+", criteria_str): res.group(0), <<>> for
\* None; the search starts over from the beginning of the string
StepParam(criteria_str) == SearchWordDigits(criteria_str, {kStepU, kStepD}).text

\* xml_parent[variance_type]
xml_parent(v) ==
    CASE v = <<"M">> -> ".//env_dynamics/motion_throttle"
      [] v = <<"B", "C">> -> ".//env_dynamics/blocks/carry_throttle"
      [] v = <<"B", "M">> -> ".//env_dynamics/blocks/manipulation_penalty"

\* variance_col[variance_type]
variance_col(v) ==
    CASE v = <<"M">> -> "swarm_motion_throttle"
      [] v = <<"B", "C">> -> "swarm_motion_throttle"
      [] v = <<"B", "M">> -> "block_manip_penalty"

\* TemporalVarianceParser.__call__
TemporalVarianceParser(criteria_str) ==
    LET variance == SearchAlternation(criteria_str, kVarianceTypes)
        waveform == SearchAlternation(criteria_str, kWaveformTypes)
        step == StepParam(criteria_str)
    IN IF variance.at = 0 THEN Raised("AssertionError")
       ELSE IF waveform.at = 0 THEN Raised("AssertionError")
       ELSE IF Contains(waveform.word, kStep) /\ step = <<>> THEN Raised("AssertionError")
       ELSE Returned([variance_type |-> variance.word,
                      xml_parent_path |-> xml_parent(variance.word),
                      variance_csv_col |-> variance_col(variance.word),
                      waveform_type |-> waveform.word,
                      waveform_param |-> IF Contains(waveform.word, kStep)
                                         THEN IntOf(From(step, 5)) ELSE 0,
                      population |-> ParsePopulation(criteria_str)])

\* the numbers written on command lines
Numbers == {str(n) : n \in 0..MaxNum}

\* what may follow the mode of a criteria string: nothing, a population
\* segment, or a segment that is none
PopSegments == {<<>>, <<".", "Z">>, <<".", "x">>}
               \cup {<<".", "Z">> \o n : n \in Numbers}
               \cup {<<".", "x", "Z">> \o n : n \in Numbers}

OracleModes == {<<>>, <<".">> \o kEntities, <<".">> \o kTasking,
                <<".", "b", "l", "o", "c", "k", "s">>}

PolicyModes == {<<>>, <<".">> \o kAll, <<".">> \o kAll \o <<"x">>,
                <<".", "r", "a", "n", "d", "o", "m">>}

VarianceTokens == {<<>>, <<"B", "C">>, <<"B", "M">>, <<"M">>}

WaveformTokens == {<<>>} \cup {kWaveformTypes[k] : k \in 1..Len(kWaveformTypes)}
                  \cup {w \o n : w \in {kStepU, kStepD}, n \in Numbers}

\* a further segment after the waveform
TrailingTokens == {<<>>, <<".">> \o kStepU \o <<"3">>, <<".">> \o kStepD \o <<"1", "2">>,
                   <<".", "S", "i", "n", "e">>}

\* the criteria strings of the command line, per family
CliArgs(c) ==
    CASE c = "oracle" ->
            {<<"o", "r", "a", "c", "l", "e">> \o m \o z \o t :
                m \in OracleModes, z \in PopSegments, t \in PopSegments}
      [] c = "ta_policy_set" ->
            {<<"t", "a", "_", "p", "o", "l", "i", "c", "y", "_", "s", "e", "t">> \o m \o z \o t :
                m \in PolicyModes, z \in PopSegments, t \in PopSegments}
      [] c = "temporal_variance" ->
            {<<"t", "e", "m", "p", "o", "r", "a", "l", "_",
               "v", "a", "r", "i", "a", "n", "c", "e", ".">> \o v \o w \o u \o z :
                v \in VarianceTokens, w \in WaveformTokens, u \in TrailingTokens,
                z \in PopSegments}

\* attr.get('population', None)
GetPopulation(p) == IF p.status = "returned" THEN p.ret.population ELSE NoPopulation

ParseUnchanged == UNCHANGED <<criteria, constructed, dynamics, tuples, policies, population,
                              extents, attr_changes, ncalls, ret, first, dirnames, raised,
                              pc, local, tret, cli_arg, pickled, xticks, xticklabels>>

\* factory(cli_arg, ...) of oracle.py up to the class it returns: the parsed
\* dict is the attr of the closure
Oracle_factory ==
    /\ criteria = "oracle"
    /\ parsed = NoParse
    /\ parsed' = Oracle_Parser(cli_arg)
    /\ attr' = [NoAttr EXCEPT !.oracle_name = parsed'.ret.oracle_name,
                              !.population = parsed'.ret.population]
    /\ ParseUnchanged

\* factory(cli_arg, ...) of ta_policy_set.py; no class when the parser raises
TAPolicySet_factory ==
    /\ criteria = "ta_policy_set"
    /\ parsed = NoParse
    /\ parsed' = TAPolicySet_Parser(cli_arg)
    /\ attr' = [NoAttr EXCEPT !.population = GetPopulation(parsed')]
    /\ ParseUnchanged

\* TemporalVarianceParser()(criteria_str)
TemporalVarianceParser_call ==
    /\ criteria = "temporal_variance"
    /\ parsed = NoParse
    /\ parsed' = TemporalVarianceParser(cli_arg)
    /\ attr' = [NoAttr EXCEPT !.population = GetPopulation(parsed')]
    /\ ParseUnchanged

InitParse ==
    /\ criteria \in {"oracle", "ta_policy_set", "temporal_variance"}
    /\ cli_arg \in CliArgs(criteria)
    /\ parsed = NoParse
    /\ attr = NoAttr
    /\ constructed = FALSE
    /\ dynamics = <<>>
    /\ tuples = PyNone
    /\ policies = <<>>
    /\ population = NoPopulation
    /\ extents = <<>>
    /\ attr_changes = PyNone
    /\ ncalls = 0
    /\ ret = PyNone
    /\ first = PyNone
    /\ dirnames = PyNone
    /\ raised = ""
    /\ pc = [t \in Callers |-> "idle"]
    /\ local = [t \in Callers |-> NoLocal]
    /\ tret = [t \in Callers |-> PyNone]
    /\ pickled = <<>>
    /\ xticks = PyNone
    /\ xticklabels = PyNone

NextParse ==
    \/ Oracle_factory
    \/ TAPolicySet_factory
    \/ TemporalVarianceParser_call

SpecParse == InitParse /\ [][NextParse]_vars

----------------------------------------------------------------------------
(* Properties.                                                             *)

IsBMD == criteria = "block_motion_dynamics" /\ constructed

NDyn == Len(attr.dynamics)

\* pair i of attr['dynamics'] has, in change set chgs, a value that reads
\* as base + base * x * factor
HasMagnitude(chgs, i, x) ==
    \E v \in ValuesOf(chgs, kMotionPath, attr.dynamics[i][1]) :
        float(v) * FScale = attr.dynamics[i][2] * FScale
                            + attr.dynamics[i][2] * x * attr.factor

\* C1: the change sequence of a block motion dynamics criteria of
\* cardinality N has exactly N entries, however many pairs are tracked.
C1_LengthIsCardinality == IsBMD => Len(dynamics) = attr.cardinality

\* C2: entry 0 sets every tracked attribute to zero, entry x+1 sets every
\* tracked attribute to base + base*x*factor (x in 0..N-2), and every entry
\* carries policy=random_walk.
C2_LinearFromBase ==
    IsBMD =>
        /\ Len(dynamics) >= attr.cardinality
        /\ \A i \in 1..NDyn :
              /\ ValuesOf(dynamics[1], kMotionPath, attr.dynamics[i][1]) # {}
              /\ \A v \in ValuesOf(dynamics[1], kMotionPath, attr.dynamics[i][1]) :
                    float(v) = 0
        /\ \A x \in 0..(attr.cardinality - 2) :
              \A i \in 1..NDyn : HasMagnitude(dynamics[x + 2], i, x)
        /\ \A k \in 1..Len(dynamics) : policy_xml \in dynamics[k]

IsEntitiesOracle == criteria = "oracle" /\ attr.oracle_name = "entities_oracle"

\* the feature changes of a variant
FeatureChanges(chgs) == {c \in chgs : c.path = ".//oracle_manager/entities_oracle"}

\* bit j (1 = most significant of k bits) of i
Bit(i, j, k) == (i \div (2 ^ (k - j))) % 2

\* C4: the entities oracle has 2^K variants; variant i has exactly K feature
\* changes under .//oracle_manager/entities_oracle and feature j is "true"
\* exactly when bit j of i, first feature most significant, is 1.
C4_OracleEnumeration ==
    (IsEntitiesOracle /\ ret.tag = "list") =>
        LET K == Len(kInfoTypes)
        IN /\ Len(ret.items) = 2 ^ K
           /\ \A i \in 0..(2 ^ K - 1) :
                 /\ Cardinality(FeatureChanges(ret.items[i + 1])) = K
                 /\ \A j \in 1..K :
                       \E c \in FeatureChanges(ret.items[i + 1]) :
                           /\ c.attr = kInfoTypes[j]
                           /\ c.value = IF Bit(i, j, K) = 1 THEN kTrue ELSE kFalse

\* a call returned the four variants, the second one with caches=false and
\* blocks=true
C4_Witness ==
    /\ IsEntitiesOracle
    /\ ret.tag = "list"
    /\ Len(ret.items) = 4
    /\ XMLAttrChange(".//oracle_manager/entities_oracle", "blocks", kTrue) \in ret.items[2]
    /\ XMLAttrChange(".//oracle_manager/entities_oracle", "caches", kFalse) \in ret.items[2]

\* C5: two callers that enter gen_attr_changelist() while the cache is
\* unpopulated both get the sequence one sequential call returns.
C5_ConcurrentCallsAgree ==
    \A t \in Callers : pc[t] = "done" => tret[t] = SequentialResult

\* C6: every call of gen_attr_changelist() in a sequence of calls on one
\* object returns the content the first call returned.
C6_RepeatedCallsIdentical == (ncalls >= 1 /\ ret.tag = "list") => ret = first

\* an oracle with a population override was asked a third time
C6_Witness ==
    /\ IsEntitiesOracle
    /\ population # NoPopulation
    /\ ncalls >= 3
    /\ Len(ret.items) = 4

\* C7: gen_exp_dirnames() returns one name per variant of the sequence, and
\* name i is "exp" followed by the decimal numeral of i.
C7_DirnamesMatchVariants ==
    dirnames.tag = "list" =>
        /\ ret.tag = "list"
        /\ Len(dirnames.items) = Len(ret.items)
        /\ \A i \in 0..(Len(dirnames.items) - 1) :
              LET name == dirnames.items[i + 1]
                  num == SubSeq(name, 4, Len(name))
              IN /\ Len(name) >= 4
                 /\ SubSeq(name, 1, 3) = <<"e", "x", "p">>
                 /\ \A n \in 1..Len(num) : IsDigit(num[n])
                 /\ IntOf(num) = i
                 /\ (Len(num) > 1 => num[1] # "0")

\* twelve variants: the last directory is exp11
C7_Witness ==
    /\ IsBMD
    /\ dirnames.tag = "list"
    /\ Len(dirnames.items) = 12
    /\ dirnames.items[12] = <<"e", "x", "p", "1", "1">>

IsGeneratedCache == criteria = "dynamic_cache" /\ attr_changes.tag = "list"

\* C8: for every extent the emitted new_cache_tol is strictly less than the
\* emitted cache_prox_dist.
C8_TolBelowProx ==
    IsGeneratedCache =>
        \A k \in 1..Len(attr_changes.items) :
            \A tol \in ValuesOf(attr_changes.items[k], ".//cache_sel_matrix", "new_cache_tol") :
                \A prox \in ValuesOf(attr_changes.items[k], ".//cache_sel_matrix",
                                     "cache_prox_dist") :
                    float(tol) < float(prox)

\* the bounds of a range "lower:upper"
RangeLower(s) == float(SubSeq(s, 1, (CHOOSE i \in 1..Len(s) : s[i] = ":") - 1))

RangeUpper(s) == float(SubSeq(s, (CHOOSE i \in 1..Len(s) : s[i] = ":") + 1, Len(s)))

\* C9: for every extent with x > 0 and y > 0 the lower bound of site_xrange
\* and of site_yrange is strictly less than its upper bound.
C9_RangesNonDegenerate ==
    IsGeneratedCache =>
        \A k \in 1..Len(attr_changes.items) :
            (extents[k].x > 0 /\ extents[k].y > 0) =>
                \A a \in {"site_xrange", "site_yrange"} :
                    \A r \in ValuesOf(attr_changes.items[k], ".//cache_sel_matrix", a) :
                        RangeLower(r) < RangeUpper(r)

\* C10: gen_attr_changelist() on a dynamic cache with a zero-area extent
\* ends in an error and returns no change sets.
C10_ZeroAreaIsFatal ==
    (/\ criteria = "dynamic_cache"
     /\ ncalls >= 1
     /\ \E k \in 1..Len(extents) : extents[k].x = 0 \/ extents[k].y = 0)
    => (raised # "" /\ ret.tag = "None")

----------------------------------------------------------------------------
(* Properties of the plotting stage and of the generated sequences.        *)

IsPolicySet == criteria = "ta_policy_set" /\ constructed

\* the policy names that the change set chgs sets
PolicyNames(chgs) == ValuesOf(chgs, ".//task_alloc", "policy")

\* C11: the policy set without a population has exactly 5 variants in the
\* order random, stoch_nbhd1, strict_greedy, epsilon_greedy, UCB1, named
\* exp0..exp4, and graph_xticklabels() returns Random, STOCH-N1, MAT-OPT,
\* $\epsilon$-greedy, UCB1: as many labels as registered policies, label i
\* being the label of policy i.
C11_LabelsMatchPolicies ==
    (IsPolicySet /\ attr.population = NoPopulation) =>
        /\ ret.tag = "list" =>
              /\ Len(ret.items) = 5
              /\ PolicyNames(ret.items[1]) = {<<"r", "a", "n", "d", "o", "m">>}
              /\ PolicyNames(ret.items[2])
                    = {<<"s", "t", "o", "c", "h", "_", "n", "b", "h", "d", "1">>}
              /\ PolicyNames(ret.items[3])
                    = {<<"s", "t", "r", "i", "c", "t", "_", "g", "r", "e", "e", "d", "y">>}
              /\ PolicyNames(ret.items[4])
                    = {<<"e", "p", "s", "i", "l", "o", "n", "_", "g", "r", "e", "e", "d", "y">>}
              /\ PolicyNames(ret.items[5]) = {<<"U", "C", "B", "1">>}
              /\ \A i \in 1..5 : Cardinality(ret.items[i]) = 1
        /\ dirnames.tag = "list" =>
              dirnames.items = << <<"e", "x", "p", "0">>, <<"e", "x", "p", "1">>,
                                  <<"e", "x", "p", "2">>, <<"e", "x", "p", "3">>,
                                  <<"e", "x", "p", "4">> >>
        /\ xticklabels.tag = "list" =>
              /\ Len(xticklabels.items) = Len(policies)
              /\ xticklabels.items[1] = <<"R", "a", "n", "d", "o", "m">>
              /\ xticklabels.items[2] = <<"S", "T", "O", "C", "H", "-", "N", "1">>
              /\ xticklabels.items[3] = <<"M", "A", "T", "-", "O", "P", "T">>
              /\ xticklabels.items[4] = <<"$", "\\", "e", "p", "s", "i", "l", "o", "n", "$",
                                          "-", "g", "r", "e", "e", "d", "y">>
              /\ xticklabels.items[5] = <<"U", "C", "B", "1">>

C11_Witness ==
    /\ IsPolicySet
    /\ attr.population = NoPopulation
    /\ ret.tag = "list"
    /\ dirnames.tag = "list"
    /\ xticklabels.tag = "list"
    /\ Len(xticklabels.items) = Len(ret.items)

\* the magnitude, in units of 1/FScale^2, that generated entry i of the
\* sequence: zero for the D baseline entries, then base + base*x*factor of
\* pair j at step x for entry D + x*D + j
GeneratingMagnitude(i) ==
    IF i <= NDyn THEN 0
    ELSE LET x == (i - NDyn - 1) \div NDyn
             j == ((i - NDyn - 1) % NDyn) + 1
         IN attr.dynamics[j][2] * FScale + attr.dynamics[j][2] * x * attr.factor

\* the directory d holds the change set that was generated for it
HoldsGenerated(d) ==
    /\ DirIndex(d) \in 1..Len(dynamics)
    /\ pickled[DirIndex(d)] = dynamics[DirIndex(d)]

\* C12: for every entry i of a generated block motion sequence, calc_xtick
\* of the persisted and reloaded change set is the magnitude that generated
\* entry i (0.0 for a baseline entry), and graph_xticks() without exp_dirs
\* returns these magnitudes in the order of the directories exp0, exp1, ...
C12_TicksRoundTrip ==
    IsBMD =>
        /\ \A i \in 1..Len(pickled) :
              pickled[i] = dynamics[i] =>
                  /\ calc_xtick(pickled[i]).tag = "float"
                  /\ calc_xtick(pickled[i]).val * FScale = GeneratingMagnitude(i)
        /\ xticks.tag = "list" =>
              /\ Len(xticks.items) = Len(xticks.dirs)
              /\ \A k \in 1..Len(xticks.dirs) :
                    HoldsGenerated(xticks.dirs[k]) =>
                        /\ xticks.items[k].tag = "float"
                        /\ xticks.items[k].val * FScale
                              = GeneratingMagnitude(DirIndex(xticks.dirs[k]))
        /\ (xticks.tag = "list" /\ dirnames.tag = "list"
            /\ xticks.dirs = dirnames.items) =>
              /\ xticks.dirs = ExpDirnames(dynamics)
              /\ Len(xticks.items) = Len(dynamics)

\* graph_xticks() without exp_dirs has returned 0.0, 0.1, 0.15 for base 0.1,
\* factor 0.5 and cardinality 3
C12_Witness ==
    /\ IsBMD
    /\ NDyn = 1
    /\ pickled = dynamics
    /\ xticks.tag = "list"
    /\ xticks.dirs = ExpDirnames(dynamics)
    /\ xticks.items = <<PyFloat(0), PyFloat(FScale \div 10), PyFloat((15 * FScale) \div 100)>>

\* the change set has no policy=random_walk or no random_walk_prob under the
\* block motion path
Unrecognized(exp_def) ==
    \/ ~ \E c \in exp_def : /\ c.path = kMotionPath
                            /\ c.attr = "policy"
                            /\ c.value = <<"r", "a", "n", "d", "o", "m", "_", "w", "a", "l", "k">>
    \/ ~ \E c \in exp_def : c.path = kMotionPath /\ c.attr = "random_walk_prob"

\* C13: graph_xticks() returns a list with one tick per directory, and the
\* tick of a directory whose persisted change set has no recognized
\* policy/attribute combination under the block motion path is None.
C13_UnrecognizedIsNone ==
    (IsBMD /\ xticks.tag = "list") =>
        /\ Len(xticks.items) = Len(xticks.dirs)
        /\ \A k \in 1..Len(xticks.dirs) :
              Unrecognized(unpickle(xticks.dirs[k])) => xticks.items[k] = PyNone

\* a list of ticks with None for an unrecognized change set, between the
\* ticks of two recognized ones
C13_Witness ==
    /\ IsBMD
    /\ xticks.tag = "list"
    /\ Len(xticks.items) >= 3
    /\ \E k \in 2..(Len(xticks.items) - 1) :
          /\ Unrecognized(unpickle(xticks.dirs[k]))
          /\ (\E c \in unpickle(xticks.dirs[k]) : c.attr = "random_walk_prob")
          /\ xticks.items[k] = PyNone
          /\ xticks.items[k - 1].tag = "float"
          /\ xticks.items[k + 1].tag = "float"

\* C14: on an oracle criteria whose mode is tasking, gen_attr_changelist()
\* and gen_exp_dirnames() end in a not-implemented error and return nothing.
C14_TaskingNotImplemented ==
    (/\ criteria = "oracle"
     /\ constructed
     /\ attr.oracle_name = "tasking_oracle"
     /\ ncalls >= 1)
    => /\ raised = "NotImplementedError"
       /\ ret.tag = "None"
       /\ dirnames.tag = "None"

\* a parser has run on cli_arg
IsParsed(c) == criteria = c /\ parsed.status # "unparsed"

\* C15: the oracle parser ends in an error, and returns no parsed dict, for
\* every criteria string that contains neither `entities` nor `tasking`.
C15_UnknownOracleRejected ==
    (/\ IsParsed("oracle")
     /\ ~Contains(cli_arg, <<"e", "n", "t", "i", "t", "i", "e", "s">>)
     /\ ~Contains(cli_arg, <<"t", "a", "s", "k", "i", "n", "g">>))
    => parsed.status \notin {"returned"}

\* the positions of cli_arg where a literal .Z is followed by a digit
PopulationOccurrences ==
    {i \in 1..(Len(cli_arg) - 2) :
        cli_arg[i] = "." /\ cli_arg[i + 1] = "Z" /\ IsDigit(cli_arg[i + 2])}

\* the digits that follow the first .Z of PopulationOccurrences
FirstPopulationDigits ==
    LET i == Leftmost(PopulationOccurrences)
        last == CHOOSE j \in (i + 2)..Len(cli_arg) :
                    /\ \A k \in (i + 2)..j : IsDigit(cli_arg[k])
                    /\ (j = Len(cli_arg) \/ ~IsDigit(cli_arg[j + 1]))
    IN SubSeq(cli_arg, i + 2, last)

\* C17: whenever a parser returns, the population it parsed is the integer
\* of the digits of the first `.Z<digits>` of the criteria string, and it is
\* None exactly when the string has no `.Z<digits>` (for the policy set: no
\* population segment).
C17_PopulationIsFirstDotZ ==
    (parsed.status = "returned") =>
        /\ PopulationOccurrences # {} =>
              attr.population = IntOf(FirstPopulationDigits)
        /\ attr.population = NoPopulation <=> PopulationOccurrences = {}

\* the step token that the parser recognizes as waveform is followed
\* directly by a digit
StepHasMagnitude(at) == at + 5 <= Len(cli_arg) /\ IsDigit(cli_arg[at + 5])

\* the integer of the digits that follow the step token at position at
StepMagnitude(at) ==
    LET last == CHOOSE j \in (at + 5)..Len(cli_arg) :
                    /\ \A k \in (at + 5)..j : IsDigit(cli_arg[k])
                    /\ (j = Len(cli_arg) \/ ~IsDigit(cli_arg[j + 1]))
    IN IntOf(SubSeq(cli_arg, at + 5, last))

\* C19: when the waveform recognized in a temporal variance string is StepU
\* or StepD, the parser fails unless a digit follows that token directly,
\* and otherwise waveform_param is the integer of the digits that follow
\* that same token.
C19_StepMagnitudeOfSameToken ==
    LET variance == SearchAlternation(cli_arg, kVarianceTypes)
        waveform == SearchAlternation(cli_arg, kWaveformTypes)
    IN (/\ IsParsed("temporal_variance")
        /\ variance.at # 0
        /\ waveform.word \in {<<"S", "t", "e", "p", "U">>, <<"S", "t", "e", "p", "D">>})
       => IF StepHasMagnitude(waveform.at)
          THEN /\ parsed.status = "returned"
               /\ parsed.ret.waveform_param = StepMagnitude(waveform.at)
          ELSE parsed.status = "AssertionError"

\* C20: the policy set parser returns only for strings whose second
\* dot-separated segment is exactly `all`; for every other string, one with
\* another second segment or with none, it ends in an assertion failure.
C20_OnlyAllElseAssertion ==
    LET segs == split(cli_arg)
        isAll == Len(segs) >= 2 /\ segs[2] = <<"a", "l", "l">>
    IN IsParsed("ta_policy_set") =>
          /\ parsed.status = "returned" => isAll
          /\ ~isAll => parsed.status = "AssertionError"

\* the decimal string s has exactly 9 digits after its point
NineDecimals(s) ==
    \E p \in 1..Len(s) :
        /\ s[p] = "."
        /\ Len(s) - p = 9
        /\ \A k \in (p + 1)..Len(s) : IsDigit(s[k])

\* the two bounds of a range "lower:upper", as written
RangeBounds(s) ==
    LET c == CHOOSE i \in 1..Len(s) : s[i] = ":"
    IN {SubSeq(s, 1, c - 1), SubSeq(s, c + 1, Len(s))}

\* the numeric values that the change set chgs writes: every value but the
\* policy names, the enable flags and the population count, a range
\* counting for its two bounds
NumericValues(chgs) ==
    {c.value : c \in {d \in chgs : d.attr \in {"random_walk_prob", "min_dist", "dimension",
                                               "cache_prox_dist", "new_cache_tol",
                                               "nest_prox_dist", "block_prox_dist",
                                               "prox_dist"}}}
    \cup UNION {RangeBounds(c.value) :
                    c \in {d \in chgs : d.attr \in {"site_xrange", "site_yrange"}}}

\* C16: every numeric value of a generated change has exactly 9 decimal
\* places: every dynamics magnitude, the baseline zero included, and every
\* geometry-derived value, both bounds of site_xrange and site_yrange
\* included.
C16_NineDecimalsEverywhere ==
    /\ IsBMD => \A k \in 1..Len(dynamics) :
                    \A v \in NumericValues(dynamics[k]) : NineDecimals(v)
    /\ IsGeneratedCache => \A k \in 1..Len(attr_changes.items) :
                              \A v \in NumericValues(attr_changes.items[k]) : NineDecimals(v)

\* the changes of the swarm size in the change set chgs
PopulationChangesIn(chgs) == {c \in chgs : c.path = ".//arena/distribute/entity"}

\* the changes of chgs that select the oracle features or the policy
OwnChanges(chgs) ==
    {c \in chgs : c.path \in {".//oracle_manager/entities_oracle", ".//task_alloc"}}

\* C18: with a population override every variant that gen_attr_changelist()
\* returns for an oracle or a policy set holds the same population-size
\* change next to its own feature or policy changes; without an override no
\* variant holds a population change.
C18_PopulationMergedIntoEach ==
    (/\ criteria \in {"oracle", "ta_policy_set"}
     /\ constructed
     /\ ret.tag = "list")
    => \A k \in 1..Len(ret.items) :
          /\ OwnChanges(ret.items[k]) # {}
          /\ ret.items[k] = OwnChanges(ret.items[k]) \cup PopulationChangesIn(ret.items[k])
          /\ IF attr.population # NoPopulation
             THEN PopulationChangesIn(ret.items[k])
                    = {[path |-> ".//arena/distribute/entity", attr |-> "quantity",
                        value |-> str(attr.population)]}
             ELSE PopulationChangesIn(ret.items[k]) = {}

\* an entities oracle with population 0 and a policy set with a population
\* have returned their variants, each with the population change
C18_Witness ==
    /\ criteria \in {"oracle", "ta_policy_set"}
    /\ attr.population # NoPopulation
    /\ ret.tag = "list"
    /\ Len(ret.items) >= 4
    /\ \A k \in 1..Len(ret.items) : Cardinality(PopulationChangesIn(ret.items[k])) = 1
    /\ criteria = "oracle" => attr.population = 0

\* the variant sequence that the criteria object holds: self.dynamics of a
\* block motion dynamics, self.attr_changes of the other families, <<>> when
\* it holds none
StoredSequence ==
    IF criteria = "block_motion_dynamics" THEN dynamics
    ELSE IF attr_changes.tag = "list" THEN attr_changes.items
    ELSE <<>>

\* C21: in every family the constructed object holds no variant sequence
\* until gen_attr_changelist() is called; the first call generates it, and
\* every later call returns that same cached sequence.
C21_LazyThenCached ==
    constructed =>
        /\ ncalls = 0 => StoredSequence = <<>>
        /\ (ncalls >= 1 /\ raised = "" /\ ret.tag = "list") =>
              /\ ret.items = StoredSequence
              /\ ret = first

\* C22: for a policy set, graph_xticklabels() returns exactly as many labels
\* as graph_xticks() returns ticks for the same exp_dirs, a proper subset of
\* the generated directories included.
C22_OneLabelPerTick ==
    (/\ IsPolicySet
     /\ xticks.tag = "list"
     /\ xticklabels.tag = "list"
     /\ xticks.dirs = xticklabels.dirs)
    => Len(xticklabels.items) = Len(xticks.items)

====
